---- MODULE Spec2Model ----
(***************************************************************************)
(* Model of the api-manager HTTP resource client: the Api service          *)
(* (search/read/create/update/remove), the ApiRequest facade bound to one  *)
(* endpoint, and the ApiInterceptor every HttpClient call passes through   *)
(* (headers, timeout, retry with backoff, response and error               *)
(* normalisation, status side effects).                                    *)
(*                                                                         *)
(* Time is in milliseconds.  One behaviour follows one logical call from   *)
(* the caller's invocation to the value or error the caller receives.      *)
(* Everything a JavaScript turn does synchronously is one action.          *)
(***************************************************************************)
EXTENDS Integers, Sequences, FiniteSets, TLC

----------------------------------------------------------------------------
(* Bounds of the model *)

\* largest retry count offered to the configuration and to X-Retries
MaxRetries == 1
\* time advances by at most this many seconds per step (and never past a
\* timer)
TickStep == 5
\* largest X-Retries a direct HttpClient call sets
MaxHeaderRetries == 4
\* most aborted transport requests the upstream may still be answering
MaxStale == 1

----------------------------------------------------------------------------
(* JavaScript values *)

\* an optional number that is absent (undefined)
UNDEFINED == -1

\* a || b on numbers: undefined and 0 are falsy
OrElse(a, b) == IF a = UNDEFINED \/ a = 0 THEN b ELSE a

\* a ?? b on numbers
Coalesce(a, b) == IF a = UNDEFINED THEN b ELSE a

\* a || b on strings: undefined (modelled "") and "" are falsy
OrElseStr(a, b) == IF a = "" THEN b ELSE a

Min(a, b) == IF a <= b THEN a ELSE b

\* Math.pow(2, n) for n >= 0
RECURSIVE Pow2(_)
Pow2(n) == IF n <= 0 THEN 1 ELSE 2 * Pow2(n - 1)

\* Math.floor in the place of Math.ceil
FloorDiv(a, b) == a \div b

\* Math.ceil(a / b) for a >= 0, b >= 1
CeilDiv(a, b) == (a + b - 1) \div b

----------------------------------------------------------------------------
(* Program constants *)

DEFAULT_TIMEOUT == 30000
DEFAULT_RETRIES == 2
MAX_RETRY_DELAY == 10000
\* the literal 1000 of the interceptor's exponential backoff
BackoffBase == 1000
\* retry({ count, delay: 1000 }) of Api.search and Api.read
ApiRetryDelay == 1000
\* config.defaultTimeout || 5000 and config.defaultRetries || 0
ApiFallbackTimeout == 5000
ApiFallbackRetries == 0

----------------------------------------------------------------------------
(* Strings *)

Digit(d) ==
    CASE d = 0 -> "0" [] d = 1 -> "1" [] d = 2 -> "2" [] d = 3 -> "3"
      [] d = 4 -> "4" [] d = 5 -> "5" [] d = 6 -> "6" [] d = 7 -> "7"
      [] d = 8 -> "8" [] OTHER -> "9"

\* Number.prototype.toString() for n >= 0
RECURSIVE NumToString(_)
NumToString(n) ==
    IF n < 10 THEN Digit(n) ELSE NumToString(n \div 10) \o Digit(n % 10)

\* `${x}` of an optional number
Interpolate(n) == IF n = UNDEFINED THEN "undefined" ELSE NumToString(n)

----------------------------------------------------------------------------
(* Configuration: ApiConfig and EndpointConfig *)

BaseUrl == "http://localhost:5001/api"

\* the endpoint names the configuration registers, and one it does not
EndpointNames == {"items"}
UnknownEndpoint == "ghost"

RetryChoices == {UNDEFINED} \cup (0 .. MaxRetries)
TimeoutChoices == {UNDEFINED, 10000}

EndpointConfig == [path : {"items"}, timeout : TimeoutChoices, retries : RetryChoices]

ApiConfig ==
    [baseUrl : {BaseUrl},
     endpoints : [EndpointNames -> EndpointConfig],
     defaultTimeout : {UNDEFINED, 3000},
     defaultRetries : {UNDEFINED, MaxRetries}]

\* Api.constructor: this.defaultTimeout and this.defaultRetries
ApiDefaultTimeout(cfg) == OrElse(cfg.defaultTimeout, ApiFallbackTimeout)
ApiDefaultRetries(cfg) == OrElse(cfg.defaultRetries, ApiFallbackRetries)

\* Api.getEndpointConfig: whether the lookup finds a configuration
HasEndpoint(cfg, endpoint) == endpoint \in DOMAIN cfg.endpoints

\* Api.getUrl, with the id the operation appends ("" when none)
GetUrl(cfg, path, id) ==
    cfg.baseUrl \o "/" \o path \o (IF id = "" THEN "" ELSE "/" \o id)

\* timeout(endpointConfig.timeout || this.defaultTimeout)
ApiTimeoutOf(cfg, endpoint) ==
    OrElse(cfg.endpoints[endpoint].timeout, ApiDefaultTimeout(cfg))

\* retry({ count: endpointConfig.retries || this.defaultRetries, ... })
ApiRetriesOf(cfg, endpoint) ==
    OrElse(cfg.endpoints[endpoint].retries, ApiDefaultRetries(cfg))

----------------------------------------------------------------------------
(* Search parameters and the query Api.buildHttpParams builds.            *)
(* A query is a sequence of [key, value] entries; a value is a sequence   *)
(* of string tokens (one token for a plain string, the JSON tokens for a  *)
(* stringified filter or sort).                                           *)

\* the caller passed no parameters object
NoParameters ==
    [present |-> FALSE, page |-> UNDEFINED, limit |-> UNDEFINED,
     search |-> "", groupby |-> "",
     filter |-> [defined |-> FALSE, entries |-> <<>>],
     sort |-> [defined |-> FALSE, items |-> <<>>]]

Parameters(page, limit) ==
    [NoParameters EXCEPT !.present = TRUE, !.page = page, !.limit = limit]

\* JSON.stringify of a filter object whose values are numbers
RECURSIVE StringifyEntries(_)
StringifyEntries(entries) ==
    IF entries = <<>> THEN <<>>
    ELSE <<"\"" \o Head(entries).key \o "\"", ":", NumToString(Head(entries).value)>>
         \o (IF Tail(entries) = <<>> THEN <<>> ELSE <<",">>)
         \o StringifyEntries(Tail(entries))

\* filter.toString() in the place of JSON.stringify(filter)
StringifyFilterToString(filter) == <<"[object Object]">>

StringifyFilter(filter) == <<"{">> \o StringifyEntries(filter.entries) \o <<"}">>

\* JSON.stringify of a SortParams[]
RECURSIVE StringifyItems(_)
StringifyItems(items) ==
    IF items = <<>> THEN <<>>
    ELSE <<"{", "\"field\"", ":", "\"" \o Head(items).field \o "\"", ",",
           "\"direction\"", ":", "\"" \o Head(items).direction \o "\"", "}">>
         \o (IF Tail(items) = <<>> THEN <<>> ELSE <<",">>)
         \o StringifyItems(Tail(items))

StringifySort(sort) == <<"[">> \o StringifyItems(sort.items) \o <<"]">>

\* HttpParams.set: replaces the entry of that key, else appends one
RECURSIVE ParamsSet(_, _, _)
ParamsSet(params, key, value) ==
    IF params = <<>> THEN <<[key |-> key, value |-> value]>>
    ELSE IF Head(params).key = key
         THEN <<[key |-> key, value |-> value]>> \o Tail(params)
         ELSE <<Head(params)>> \o ParamsSet(Tail(params), key, value)

\* Api.buildHttpParams
buildHttpParams(parameters) ==
    IF ~parameters.present THEN <<>>
    ELSE LET page == Coalesce(parameters.page, 1)
             limit == Coalesce(parameters.limit, 100)
             p1 == IF parameters.search # ""
                   THEN ParamsSet(<<>>, "search", <<parameters.search>>) ELSE <<>>
             p2 == IF parameters.filter.defined
                   THEN ParamsSet(p1, "filter", StringifyFilter(parameters.filter)) ELSE p1
             p3 == IF parameters.sort.defined /\ Len(parameters.sort.items) # 0
                   THEN ParamsSet(p2, "sort", StringifySort(parameters.sort)) ELSE p2
             p4 == IF parameters.groupby # ""
                   THEN ParamsSet(p3, "groupby", <<parameters.groupby>>) ELSE p3
         IN ParamsSet(ParamsSet(p4, "page", <<NumToString(page)>>),
                      "limit", <<NumToString(limit)>>)

----------------------------------------------------------------------------
(* Response bodies and envelopes.                                          *)
(* A JavaScript value that may be undefined, an array or an object is a    *)
(* tagged record.  A body is the object the transport parsed, with the     *)
(* fields the client reads; isNull is a null body.                         *)

Undefined == [t |-> "undefined"]
Array(items) == [t |-> "array", items |-> items]
Object(id) == [t |-> "object", id |-> id]

NoMetadata == [defined |-> FALSE, timestamp |-> "", statusCode |-> UNDEFINED, message |-> ""]
NoPagination == [defined |-> FALSE, total |-> UNDEFINED, page |-> UNDEFINED,
                 limit |-> UNDEFINED, pages |-> UNDEFINED]

\* a body with none of the fields the client reads
EmptyBody ==
    [isNull |-> FALSE, class |-> "Object", id |-> UNDEFINED,
     data |-> Undefined, total |-> UNDEFINED,
     metadata |-> NoMetadata, statusCode |-> UNDEFINED, message |-> "",
     groups |-> Undefined, sort |-> Undefined, pagination |-> NoPagination]

NullBody == [EmptyBody EXCEPT !.isNull = TRUE]

\* a bare resource: an object with an id and no data or metadata field
BareResource(id) == [EmptyBody EXCEPT !.id = id]

\* the metadata an upstream that envelopes its answers sends
UpstreamMetadata(statusCode) ==
    [defined |-> TRUE, timestamp |-> "upstream", statusCode |-> statusCode, message |-> "ok"]

\* new ApiResponse(options): reads options.data, options.statusCode, options.message
ApiResponseNew(data, statusCode, message) ==
    [EmptyBody EXCEPT
        !.class = "ApiResponse",
        !.data = data,
        !.metadata = [defined |-> TRUE, timestamp |-> "now",
                      statusCode |-> statusCode, message |-> message]]

\* new ApiSearchResponse(options)
ApiSearchResponseNew(data, total, page, limit, groups, sort, statusCode, message) ==
    [ApiResponseNew(data, OrElse(statusCode, 200), message) EXCEPT
        !.class = "ApiSearchResponse",
        !.pagination = [defined |-> TRUE,
                        total |-> Coalesce(total, 0),
                        page |-> page,
                        limit |-> limit,
                        pages |-> IF total # UNDEFINED /\ total > 0
                                  THEN CeilDiv(total, limit) ELSE 0],
        !.groups = IF groups.t = "undefined" THEN Array(<<>>) ELSE groups,
        !.sort = IF sort.t = "undefined" THEN Array(<<>>) ELSE sort]

----------------------------------------------------------------------------
(* Errors.  Every error the pipeline carries is a record of one shape:     *)
(* type names its class; body is HttpErrorResponse.error; details is       *)
(* ApiError.details.                                                       *)

NoDetails == [kind |-> "undefined", code |-> "", message |-> ""]

BlankError ==
    [type |-> "", status |-> UNDEFINED, message |-> "", code |-> "", path |-> "",
     details |-> NoDetails, body |-> NoDetails, retryAfter |-> UNDEFINED, url |-> ""]

\* an HttpErrorResponse of the transport: status, parsed error body, headers
HttpErrorResponse(status, body, retryAfter, url) ==
    [BlankError EXCEPT
        !.type = "HttpErrorResponse", !.status = status,
        !.message = "Http failure response for " \o url,
        !.body = body, !.retryAfter = retryAfter, !.url = url]

\* the TimeoutError of rxjs timeout()
TimeoutError ==
    [BlankError EXCEPT !.type = "TimeoutError", !.message = "Timeout has occurred"]

\* a TypeError thrown by reading a property of null or undefined
TypeError ==
    [BlankError EXCEPT !.type = "TypeError", !.message = "Cannot read properties"]

\* new Error(message)
PlainError(message) == [BlankError EXCEPT !.type = "Error", !.message = message]

\* what an error looks like as the details of an ApiError
AsDetails(error) ==
    IF error.type = "HttpErrorResponse" THEN error.body
    ELSE [kind |-> error.type, code |-> error.code, message |-> error.message]

\* new ApiError(message, { status, code, path, details })
ApiErrorNew(message, status, code, path, details) ==
    [BlankError EXCEPT
        !.type = "ApiError", !.message = message,
        !.status = OrElse(status, 500),
        !.path = path, !.code = code, !.details = details]

\* fromHttpError with the code always made from the status
fromHttpErrorStatusCode(httpErrorResponse) ==
    ApiErrorNew(httpErrorResponse.message, httpErrorResponse.status,
                "HTTP_" \o NumToString(httpErrorResponse.status),
                httpErrorResponse.url, httpErrorResponse.body)

\* ApiError.fromHttpError
fromHttpError(httpErrorResponse) ==
    IF httpErrorResponse.body.kind = "ErrorEvent"
    THEN ApiErrorNew(httpErrorResponse.body.message, 0, "CLIENT_ERROR", "",
                     httpErrorResponse.body)
    ELSE ApiErrorNew(
            OrElseStr(httpErrorResponse.body.message,
                      OrElseStr(httpErrorResponse.message, "Unknown error occurred")),
            httpErrorResponse.status,
            OrElseStr(httpErrorResponse.body.code,
                      "HTTP_" \o NumToString(httpErrorResponse.status)),
            httpErrorResponse.url,
            httpErrorResponse.body)

\* Api.handleError: the error the caller of an Api operation receives
handleError(error) ==
    PlainError(
        IF error.body.kind = "ErrorEvent"
        THEN "Client Error: " \o error.body.message
        ELSE "Server Error Code: " \o Interpolate(error.status)
             \o "\nMessage: " \o error.message)

\* Api.getEndpointConfig: the error thrown for a name that is not configured
EndpointNotFound(endpoint) ==
    PlainError("Endpoint \"" \o endpoint \o "\" not found in API configuration")

----------------------------------------------------------------------------
(* The interceptor's retry policy *)

\* the exponential backoff of the retry delay callback
Backoff(retryCount) == Min(BackoffBase * Pow2(retryCount), MAX_RETRY_DELAY)

\* the delay callback of the interceptor's retry: what it returns for the
\* error of the failed attempt and rxjs's count of retries (1 for the first)
RetryDelay(error, retryCount) ==
    IF error.type = "HttpErrorResponse"
    THEN LET apiError == fromHttpError(error)
         IN IF apiError.status >= 400 /\ apiError.status < 500
            THEN [kind |-> "throw", error |-> apiError, delay |-> 0]
            ELSE IF apiError.status = 429 /\ error.retryAfter # UNDEFINED
                 THEN [kind |-> "timer", error |-> error,
                       delay |-> Min(error.retryAfter * 1000, MAX_RETRY_DELAY)]
                 ELSE [kind |-> "timer", error |-> error, delay |-> Backoff(retryCount)]
    ELSE [kind |-> "timer", error |-> error, delay |-> Backoff(retryCount)]

\* a retry that never gives up
RetryForever(count, soFar, error) == RetryDelay(error, soFar + 1)

\* rxjs retry({ count, delay }) on an error of its source, soFar retries made:
\* resubscribe after a delay, or pass an error on
RetryDecision(count, soFar, error) ==
    IF count > 0 /\ soFar < count
    THEN RetryDelay(error, soFar + 1)
    ELSE [kind |-> "throw", error |-> error, delay |-> 0]

\* rxjs retry({ count, delay: 1000 }) of Api.search and Api.read
ApiRetryDecision(count, soFar, error) ==
    IF count > 0 /\ soFar < count
    THEN [kind |-> "timer", error |-> error, delay |-> ApiRetryDelay]
    ELSE [kind |-> "throw", error |-> error, delay |-> 0]

\* the catchError of ApiInterceptor.intercept: the ApiError it hands to handleApiError
CatchError(error) ==
    IF error.type = "ApiError" THEN error
    ELSE IF error.type = "HttpErrorResponse" THEN fromHttpError(error)
    ELSE ApiErrorNew("An unexpected error occurred", 500, "UNEXPECTED_ERROR", "",
                     AsDetails(error))

\* ApiInterceptor.handleApiError: the error it rethrows
handleApiError(error) ==
    IF error.status = 0
    THEN ApiErrorNew("Network error occurred. Please check your connection.",
                     0, "NETWORK_ERROR", "", error.details)
    ELSE error

\* a switch whose case 403 clears the credential as well
ClearsCredentialOnForbidden(error) == error.status \in {401, 403}

\* ApiInterceptor.handleApiError: whether it calls handleUnauthorized
ClearsCredential(error) == error.status = 401

\* handleResponse without the test for metadata: every body is wrapped
handleResponseAlwaysWraps(body) ==
    ApiResponseNew(body.data, body.statusCode, body.message)

\* ApiInterceptor.handleResponse: the body of the event it returns;
\* new ApiResponse(null) throws, which the caller of this operator handles
handleResponse(body) ==
    IF ~body.isNull /\ body.metadata.defined THEN body
    ELSE ApiResponseNew(body.data, body.statusCode, body.message)

\* whether ApiInterceptor.handleResponse throws (new ApiResponse(null))
handleResponseThrows(body) == body.isNull

----------------------------------------------------------------------------
(* The map step of each Api operation: the value the caller receives for   *)
(* the body HttpClient delivers (the interceptor's output).                *)

\* whether the map callback of the operation throws on this response
MapThrows(op, response) ==
    CASE op \in {"search", "update"} -> response.isNull
      [] op \in {"read", "create"} -> response.isNull \/ ~response.metadata.defined
      [] OTHER -> FALSE

\* Api.search: new ApiSearchResponse({...})
MapSearch(response, parameters) ==
    ApiSearchResponseNew(
        IF response.data.t = "undefined" THEN Array(<<>>) ELSE response.data,
        response.total,
        OrElse(parameters.page, 1),
        OrElse(parameters.limit, 10),
        response.groups,
        response.sort,
        OrElse(response.metadata.statusCode, 200),
        response.metadata.message)

\* Api.read and Api.create: new ApiResponse({...})
MapResource(response) ==
    ApiResponseNew(response.data, response.metadata.statusCode, response.metadata.message)

\* Api.update: new ApiResponse({...})
MapUpdate(response) ==
    ApiResponseNew(response.data,
                   OrElse(response.metadata.statusCode, 200),
                   OrElseStr(response.metadata.message, "Resource updated successfully"))

\* the value an operation emits for a response (remove and a direct
\* HttpClient call have no map step)
MapResponse(op, response, parameters) ==
    CASE op = "search" -> MapSearch(response, parameters)
      [] op \in {"read", "create"} -> MapResource(response)
      [] op = "update" -> MapUpdate(response)
      [] OTHER -> response

\* the HTTP verb of each operation
MethodOf(op) ==
    CASE op \in {"search", "read", "http"} -> "GET"
      [] op = "create" -> "POST"
      [] op = "update" -> "PATCH"
      [] OTHER -> "DELETE"

\* Api.search and Api.read pipe retry(); create, update and remove do not
ApiRetryCount(cfg, op, endpoint) ==
    IF op \in {"search", "read"} THEN ApiRetriesOf(cfg, endpoint) ELSE 0

----------------------------------------------------------------------------
(* State *)

VARIABLES
    config,     \* the ApiConfig injected as API_CONFIG
    authToken,  \* localStorage 'authToken' ("" when absent)
    client,     \* the endpoint an ApiRequest made by ApiService.add is bound to
    call,       \* the operation the caller invoked (for a constructor that threw: "add")
    pc,         \* idle, bound, inflight, icWait, apiWait, done
    api,        \* the pipe of the Api operation: timeout and retry
    ic,         \* the pipe of ApiInterceptor.intercept: request, timeout and retry
    wait,       \* ms left of the retry delay being waited
    outcome,    \* what the caller received
    attempts,   \* transport attempts issued by the call (next.handle subscriptions)
    clears,     \* calls of localStorage.removeItem('authToken')
    lastResp,   \* how the latest transport attempt ended
    flags,      \* what the attempts of the call were answered with so far
    gaps,       \* waits between the end of a failed attempt and the next attempt
    net         \* the transport: requests listened to, and requests aborted
                \* by a timeout that the upstream has not answered yet

vars == <<config, authToken, client, call, pc, api, ic, wait, outcome,
          attempts, clears, lastResp, flags, gaps, net>>

NoCall ==
    [op |-> "", args |-> <<>>, endpoint |-> "", method |-> "", url |-> "",
     query |-> <<>>, parameters |-> NoParameters, id |-> "", data |-> Undefined,
     xTimeout |-> UNDEFINED, xRetries |-> UNDEFINED]

NoHeaders == [contentType |-> "", accept |-> "", authorization |-> ""]

IdleApi == [layer |-> FALSE, timeoutValue |-> 0, count |-> 0, soFar |-> 0, timer |-> 0]
IdleIc == [timeoutValue |-> 0, retries |-> 0, soFar |-> 0, timer |-> 0, headers |-> NoHeaders]

NoOutcome == [kind |-> "none", value |-> EmptyBody, error |-> BlankError]
Success(value) == [kind |-> "success", value |-> value, error |-> BlankError]
\* the operation's observable errored
Failure(error) == [kind |-> "failure", value |-> EmptyBody, error |-> error]
\* the call threw synchronously, before any observable existed
Thrown(error) == [kind |-> "thrown", value |-> EmptyBody, error |-> error]

NoResp == [kind |-> "none", status |-> UNDEFINED, retryAfter |-> UNDEFINED,
           retriesLeft |-> FALSE, body |-> EmptyBody]

NoFlags == [clientError |-> FALSE, unauthorized |-> FALSE, only503 |-> TRUE]
NoGaps == [since |-> 0, last |-> UNDEFINED, prev |-> UNDEFINED]
NoNet == [live |-> 0, stale |-> 0]

Tokens == {"", "tok"}

Init ==
    /\ config \in ApiConfig
    /\ authToken \in Tokens
    /\ client = ""
    /\ call = NoCall
    /\ pc = "idle"
    /\ api = IdleApi
    /\ ic = IdleIc
    /\ wait = 0
    /\ outcome = NoOutcome
    /\ attempts = 0
    /\ clears = 0
    /\ lastResp = NoResp
    /\ flags = NoFlags
    /\ gaps = NoGaps
    /\ net = NoNet

----------------------------------------------------------------------------
(* Steps of the pipeline.  A synchronous run of callbacks maps the part of *)
(* the state it touches, a record s, to its value when the turn ends.      *)

Touched ==
    [pc |-> pc, api |-> api, ic |-> ic, wait |-> wait, outcome |-> outcome,
     authToken |-> authToken, clears |-> clears, attempts |-> attempts,
     net |-> net]

Apply(s) ==
    /\ pc' = s.pc
    /\ api' = s.api
    /\ ic' = s.ic
    /\ wait' = s.wait
    /\ outcome' = s.outcome
    /\ authToken' = s.authToken
    /\ clears' = s.clears
    /\ attempts' = s.attempts
    /\ net' = s.net

\* the observable completes or errors: every timer of the call is torn down
Settle(s, result) ==
    [s EXCEPT !.pc = "done", !.outcome = result, !.wait = 0,
              !.api.timer = 0, !.ic.timer = 0]

\* getAuthHeaders without the test for a stored token
getAuthHeadersAlways(token) == "Bearer " \o token

\* ApiInterceptor.getAuthHeaders
getAuthHeaders(token) == IF token # "" THEN "Bearer " \o token ELSE ""

\* ApiInterceptor.intercept up to next.handle(apiRequest): the headers decide
\* timeout and retries, the request is cloned with the standard headers, and
\* the first transport attempt of this subscription is issued
Intercept(s, c) ==
    [s EXCEPT
        !.pc = "inflight",
        !.wait = 0,
        !.ic = [timeoutValue |-> IF c.xTimeout # UNDEFINED THEN c.xTimeout
                                 ELSE DEFAULT_TIMEOUT,
                retries |-> IF c.xRetries # UNDEFINED THEN c.xRetries
                            ELSE DEFAULT_RETRIES,
                soFar |-> 0,
                timer |-> IF c.xTimeout # UNDEFINED THEN c.xTimeout
                          ELSE DEFAULT_TIMEOUT,
                headers |-> [contentType |-> "application/json",
                             accept |-> "application/json",
                             authorization |-> getAuthHeaders(s.authToken)]],
        !.attempts = @ + 1,
        !.net.live = @ + 1]

\* the caller subscribes to the observable of an Api operation, or the
\* operation's retry resubscribes: the operation's timeout starts and
\* HttpClient runs the interceptor
Subscribe(s, c) ==
    Intercept([s EXCEPT !.api.timer = s.api.timeoutValue], c)

\* the interceptor's retry resubscribes to next.handle(apiRequest).pipe(timeout)
Resend(s) ==
    [s EXCEPT !.pc = "inflight", !.wait = 0, !.ic.timer = s.ic.timeoutValue,
              !.attempts = @ + 1, !.net.live = @ + 1]

\* an error reaches the pipe of the Api operation (or, for a direct
\* HttpClient call, the caller): retry of search and read, then handleError
ApiOnError(s, c, error) ==
    IF ~s.api.layer THEN Settle(s, Failure(error))
    ELSE LET d == ApiRetryDecision(s.api.count, s.api.soFar, error)
         IN IF d.kind = "timer"
            THEN [s EXCEPT !.pc = "apiWait", !.wait = d.delay,
                           !.api.soFar = @ + 1, !.api.timer = 0, !.ic.timer = 0]
            ELSE Settle(s, Failure(handleError(d.error)))

\* a catchError that swallows the 401 once handleUnauthorized has run: the
\* call completes without an error
InterceptorFailsSwallows401(s, c, error) ==
    LET apiError == CatchError(error)
    IN IF ClearsCredential(apiError)
       THEN Settle([s EXCEPT !.authToken = "", !.clears = @ + 1], Success(EmptyBody))
       ELSE ApiOnError(s, c, handleApiError(apiError))

\* a handleUnauthorized that throws when there is no credential to clear
InterceptorFailsOnAbsent(s, c, error) ==
    LET apiError == CatchError(error)
    IN IF ClearsCredential(apiError) /\ s.authToken = ""
       THEN Settle(s, Thrown(TypeError))
       ELSE ApiOnError([s EXCEPT !.authToken = ""], c, handleApiError(apiError))

\* the catchError of the interceptor, handleApiError and its side effects
InterceptorFails(s, c, error) ==
    LET apiError == CatchError(error)
        s1 == IF ClearsCredential(apiError)
              THEN [s EXCEPT !.authToken = "", !.clears = @ + 1]
              ELSE s
    IN ApiOnError(s1, c, handleApiError(apiError))

\* an attempt failed (error response or timeout): the interceptor's retry
InterceptorOnError(s, c, error) ==
    LET d == RetryDecision(s.ic.retries, s.ic.soFar, error)
    IN IF d.kind = "timer"
       THEN [s EXCEPT !.pc = "icWait", !.wait = d.delay,
                      !.ic.soFar = @ + 1, !.ic.timer = 0]
       ELSE InterceptorFails(s, c, d.error)

\* an attempt succeeded: handleResponse in the interceptor's map, then the
\* operation's map
InterceptorOnResponse(s, c, body) ==
    IF handleResponseThrows(body) THEN InterceptorFails(s, c, TypeError)
    ELSE LET response == handleResponse(body)
         IN IF MapThrows(c.op, response) THEN ApiOnError(s, c, TypeError)
            ELSE Settle(s, Success(MapResponse(c.op, response, c.parameters)))

----------------------------------------------------------------------------
(* Inputs: what callers pass and what the upstream answers *)

FullParameters ==
    [present |-> TRUE, page |-> 2, limit |-> 5, search |-> "john", groupby |-> "kind",
     filter |-> [defined |-> TRUE, entries |-> <<[key |-> "a", value |-> 1]>>],
     sort |-> [defined |-> TRUE, items |-> <<[field |-> "x", direction |-> "asc"]>>]]

SearchInputs ==
    {NoParameters, Parameters(1, 2), [FullParameters EXCEPT !.limit = UNDEFINED]}

Ids == {"7"}
Payloads == {Object(7)}

\* X-Retries and X-Timeout of a direct HttpClient call
HeaderRetries == {UNDEFINED, 0, MaxHeaderRetries}
HeaderTimeouts == {UNDEFINED, 2000}

\* bodies of a 2xx answer: null, a bare resource, bare and enveloped search
\* results, an enveloped resource
SearchBody(items, total) == [EmptyBody EXCEPT !.data = Array(items), !.total = total]
SuccessBodies ==
    {NullBody,
     BareResource(7),
     SearchBody(<<1, 2>>, 5),
     SearchBody(<<>>, 0),
     [SearchBody(<<1, 2>>, 5) EXCEPT !.metadata = UpstreamMetadata(200)],
     [EmptyBody EXCEPT !.data = Object(7), !.metadata = UpstreamMetadata(200)]}
\* the 2xx answers: a status and a body
SuccessAnswers ==
    {[status |-> 200, body |-> b] : b \in SuccessBodies}
    \cup {[status |-> 201, body |-> BareResource(7)], [status |-> 204, body |-> NullBody]}

\* error bodies: one without and one with a code and a message
PlainBody == [kind |-> "object", code |-> "", message |-> ""]
CodedBody == [kind |-> "object", code |-> "E_CODE", message |-> "refused"]
\* the error answers: a status, a body and Retry-After in seconds
ErrorAnswer(status, body, retryAfter) ==
    [status |-> status, body |-> body, retryAfter |-> retryAfter]
ErrorAnswers ==
    {ErrorAnswer(401, PlainBody, UNDEFINED),
     ErrorAnswer(403, PlainBody, UNDEFINED),
     ErrorAnswer(404, PlainBody, UNDEFINED),
     ErrorAnswer(404, CodedBody, UNDEFINED),
     ErrorAnswer(429, PlainBody, UNDEFINED),
     ErrorAnswer(429, PlainBody, 3),
     ErrorAnswer(429, PlainBody, 20),
     ErrorAnswer(503, PlainBody, UNDEFINED),
     ErrorAnswer(503, CodedBody, UNDEFINED)}
\* error of a status-0 HttpErrorResponse (no answer from the network)
NetworkBodies ==
    {[kind |-> "ErrorEvent", code |-> "", message |-> "Failed to fetch"],
     [kind |-> "ProgressEvent", code |-> "", message |-> ""]}

ClientErrorStatus(status) == status >= 400 /\ status < 500 /\ status # 429

----------------------------------------------------------------------------
(* Actions *)

\* ApiService.add(path): new ApiRequest(path, http, config); the constructor
\* reads config.endpoints[endpoint].path
Add(endpoint) ==
    /\ pc = "idle"
    /\ client = ""
    /\ IF HasEndpoint(config, endpoint)
       THEN /\ client' = endpoint
            /\ pc' = "bound"
            /\ outcome' = outcome
            /\ call' = call
       ELSE /\ client' = client
            /\ pc' = "done"
            /\ outcome' = Thrown(TypeError)
            /\ call' = [NoCall EXCEPT !.op = "add", !.endpoint = endpoint]
    /\ UNCHANGED <<config, net, authToken, api, ic, wait, attempts, clears,
                   lastResp, flags, gaps>>

\* new ApiRequest(path, http, config) of the path-bound ApiRequest, whose
\* constructor keeps the name without looking it up
AddPathBound(path) ==
    /\ pc = "idle"
    /\ client = ""
    /\ client' = path
    /\ pc' = "bound"
    /\ UNCHANGED <<config, net, authToken, call, api, ic, wait, outcome, attempts, clears,
                   lastResp, flags, gaps>>

\* an operation of Api, subscribed by its caller: getEndpointConfig, then the
\* request through HttpClient and the operation's pipe
Invoke(op, args, endpoint, id, data, parameters) ==
    IF ~HasEndpoint(config, endpoint)
    THEN /\ pc' = "done"
         /\ outcome' = Thrown(EndpointNotFound(endpoint))
         /\ call' = [NoCall EXCEPT !.op = op, !.args = args, !.endpoint = endpoint]
         /\ UNCHANGED <<config, net, authToken, client, api, ic, wait, attempts,
                        clears, lastResp, flags, gaps>>
    ELSE LET c == [op |-> op,
                   args |-> args,
                   endpoint |-> endpoint,
                   method |-> MethodOf(op),
                   url |-> GetUrl(config, config.endpoints[endpoint].path, id),
                   query |-> IF op = "search" THEN buildHttpParams(parameters) ELSE <<>>,
                   parameters |-> parameters,
                   id |-> id,
                   data |-> data,
                   xTimeout |-> UNDEFINED,
                   xRetries |-> UNDEFINED]
             s == [Touched EXCEPT
                     !.api = [layer |-> TRUE,
                              timeoutValue |-> ApiTimeoutOf(config, endpoint),
                              count |-> ApiRetryCount(config, op, endpoint),
                              soFar |-> 0,
                              timer |-> 0]]
         IN /\ call' = c
            /\ Apply(Subscribe(s, c))
            /\ UNCHANGED <<config, client, lastResp, flags, gaps>>

\* the arguments of a call, as JavaScript values: a string, the search
\* parameters, a resource (Object), or undefined
Str(s) == [t |-> "string", s |-> s]
Params(parameters) ==
    IF parameters.present THEN [t |-> "parameters", p |-> parameters]
    ELSE Undefined

\* the n-th argument of a call; undefined when the caller passed fewer
Arg(args, n) == IF n <= Len(args) THEN args[n] ELSE Undefined

\* typeof x === 'string'
IsString(x) == x.t = "string"
\* a value in the place of a condition: undefined and '' are falsy
Truthy(x) == x.t # "undefined" /\ ~(x.t = "string" /\ x.s = "")
\* a ?? b
Nullish(a, b) == IF a.t = "undefined" THEN b ELSE a

\* an argument where Api expects a string id or the search parameters
AsId(x) == IF x.t = "string" THEN x.s ELSE "[object Object]"
AsParameters(x) == IF x.t = "parameters" THEN x.p ELSE NoParameters

\* ApiRequest.search: the parameters it hands to super.search
SearchOverload(args) ==
    IF IsString(Arg(args, 1)) THEN Arg(args, 2) ELSE Arg(args, 1)
\* endpointOrId ?? id in the place of id ?? endpointOrId
ReadOverloadLeadingWins(args) == Nullish(Arg(args, 1), Arg(args, 2))

\* ApiRequest.read and ApiRequest.remove: id ?? endpointOrId
ReadOverload(args) == Nullish(Arg(args, 2), Arg(args, 1))
RemoveOverload(args) == Nullish(Arg(args, 2), Arg(args, 1))
\* ApiRequest.create: the data it hands to super.create
CreateOverload(args) ==
    IF IsString(Arg(args, 1)) THEN Arg(args, 2) ELSE Arg(args, 1)
\* ApiRequest.update: the id and the data it hands to super.update
UpdateOverload(args) ==
    IF Truthy(Arg(args, 3))
    THEN [id |-> Arg(args, 2), data |-> Arg(args, 3)]
    ELSE [id |-> Arg(args, 1), data |-> Arg(args, 2)]

\* the operations of an ApiRequest, called with the arguments args: each
\* resolves its overload and ends in super.<op>(this.endpoint, ...)
RequestSearch(args) ==
    /\ pc = "bound"
    /\ Invoke("search", args, client, "", Undefined,
              AsParameters(SearchOverload(args)))
RequestRead(args) ==
    /\ pc = "bound"
    /\ Invoke("read", args, client, AsId(ReadOverload(args)), Undefined,
              NoParameters)
RequestCreate(args) ==
    /\ pc = "bound"
    /\ Invoke("create", args, client, "", CreateOverload(args), NoParameters)
RequestUpdate(args) ==
    /\ pc = "bound"
    /\ Invoke("update", args, client, AsId(UpdateOverload(args).id),
              UpdateOverload(args).data, NoParameters)
RequestRemove(args) ==
    /\ pc = "bound"
    /\ Invoke("remove", args, client, AsId(RemoveOverload(args)), Undefined,
              NoParameters)

\* a request made on HttpClient directly, with the X-Timeout and X-Retries
\* headers the interceptor documents; it passes the interceptor only
HttpGet(xTimeout, xRetries) ==
    /\ pc = "idle"
    /\ LET c == [NoCall EXCEPT !.op = "http", !.method = "GET",
                               !.url = BaseUrl \o "/api/data",
                               !.xTimeout = xTimeout, !.xRetries = xRetries]
       IN /\ call' = c
          /\ Apply(Intercept(Touched, c))
    /\ UNCHANGED <<config, client, lastResp, flags, gaps>>

\* how an attempt that ended is recorded
Ended(kind, status, retryAfter, body) ==
    /\ lastResp' = [kind |-> kind, status |-> status, retryAfter |-> retryAfter,
                    retriesLeft |-> ic.retries > 0 /\ ic.soFar < ic.retries,
                    body |-> body]
    /\ flags' = [clientError |-> flags.clientError
                                 \/ (kind = "error" /\ ClientErrorStatus(status)),
                 unauthorized |-> flags.unauthorized \/ (kind = "error" /\ status = 401),
                 only503 |-> flags.only503 /\ kind = "error" /\ status = 503]
    /\ gaps' = [gaps EXCEPT !.since = 0]

\* how the start of a further attempt is recorded
Started ==
    gaps' = [since |-> 0, last |-> gaps.since, prev |-> gaps.last]

\* the transport delivers the answer of the request the pipe listens to
Answered(s) == [s EXCEPT !.net.live = @ - 1]

\* a timeout that errors without unsubscribing from its source
StillSubscribed(s) == s

\* timeout() unsubscribes from its source, which aborts the request; the
\* upstream may still be working on it
Unsubscribed(s) ==
    [s EXCEPT !.net.live = @ - 1, !.net.stale = Min(@ + 1, MaxStale)]

\* the transport answers the attempt in flight with a 2xx HttpResponse
Respond(status, body) ==
    /\ pc = "inflight"
    /\ Apply(InterceptorOnResponse(Answered(Touched), call, body))
    /\ Ended("response", status, UNDEFINED, body)
    /\ UNCHANGED <<config, client, call>>

\* the transport answers the attempt in flight with an error status
RespondError(status, body, retryAfter) ==
    /\ pc = "inflight"
    /\ Apply(InterceptorOnError(Answered(Touched), call,
                                HttpErrorResponse(status, body, retryAfter, call.url)))
    /\ Ended("error", status, retryAfter, EmptyBody)
    /\ UNCHANGED <<config, client, call>>

\* the attempt in flight fails without an answer (status 0)
NetworkError(body) ==
    /\ pc = "inflight"
    /\ Apply(InterceptorOnError(Answered(Touched), call,
                                HttpErrorResponse(0, body, UNDEFINED, call.url)))
    /\ Ended("error", 0, UNDEFINED, EmptyBody)
    /\ UNCHANGED <<config, client, call>>

\* timeout(timeoutValue) of the interceptor fires: the attempt is
\* unsubscribed and a TimeoutError enters the interceptor's retry
InterceptorTimeout ==
    /\ pc = "inflight"
    /\ ic.timer = 0
    /\ Apply(InterceptorOnError(Unsubscribed(Touched), call, TimeoutError))
    /\ Ended("timeout", UNDEFINED, UNDEFINED, EmptyBody)
    /\ UNCHANGED <<config, client, call>>

\* timeout(...) of the Api operation fires: the whole intercepted request
\* (attempt in flight or backoff being waited) is unsubscribed and a
\* TimeoutError enters the operation's retry
ApiTimeout ==
    /\ pc \in {"inflight", "icWait"}
    /\ api.layer
    /\ api.timer = 0
    /\ Apply(ApiOnError(IF pc = "inflight" THEN Unsubscribed(Touched) ELSE Touched,
                        call, TimeoutError))
    /\ IF pc = "inflight" THEN Ended("timeout", UNDEFINED, UNDEFINED, EmptyBody)
       ELSE UNCHANGED <<lastResp, flags, gaps>>
    /\ UNCHANGED <<config, client, call>>

\* the interceptor's retry delay has elapsed: the same request is sent again
InterceptorRetry ==
    /\ pc = "icWait"
    /\ wait = 0
    /\ Apply(Resend(Touched))
    /\ Started
    /\ UNCHANGED <<config, client, call, lastResp, flags>>

\* the operation's retry delay has elapsed: the operation's source is
\* subscribed again, which runs the interceptor again
ApiRetry ==
    /\ pc = "apiWait"
    /\ wait = 0
    /\ Apply(Subscribe(Touched, call))
    /\ Started
    /\ UNCHANGED <<config, client, call, lastResp, flags>>

\* a late answer that is handed to the pipe as the answer of the call
LateAnswerDelivered ==
    /\ net.stale > 0
    /\ Apply(InterceptorOnResponse([Touched EXCEPT !.net.stale = @ - 1], call,
                                   BareResource(7)))
    /\ UNCHANGED <<config, client, call, lastResp, flags, gaps>>

\* the upstream answers a request that a timeout aborted: nothing listens
LateAnswer ==
    /\ net.stale > 0
    /\ net' = [net EXCEPT !.stale = @ - 1]
    /\ UNCHANGED <<config, authToken, client, call, pc, api, ic, wait, outcome,
                   attempts, clears, lastResp, flags, gaps>>

\* the timers that are running
Running ==
    CASE pc = "inflight" -> {ic.timer} \cup (IF api.layer THEN {api.timer} ELSE {})
      [] pc = "icWait" -> {wait} \cup (IF api.layer THEN {api.timer} ELSE {})
      [] pc = "apiWait" -> {wait}
      [] OTHER -> {}

\* time passes: by TickStep, or less when a timer is due sooner; a timer
\* that is due fires before time passes further
Tick ==
    /\ Running # {}
    /\ \A t \in Running : t > 0
    /\ LET due == CHOOSE t \in Running : \A u \in Running : t <= u
           d == Min(TickStep * 1000, due)
       IN /\ ic' = IF pc = "inflight" THEN [ic EXCEPT !.timer = @ - d] ELSE ic
          /\ api' = IF pc \in {"inflight", "icWait"} /\ api.layer
                    THEN [api EXCEPT !.timer = @ - d] ELSE api
          /\ wait' = IF pc \in {"icWait", "apiWait"} THEN wait - d ELSE wait
          /\ gaps' = IF pc \in {"icWait", "apiWait"}
                     THEN [gaps EXCEPT !.since = @ + d] ELSE gaps
    /\ UNCHANGED <<config, net, authToken, client, call, pc, outcome, attempts, clears,
                   lastResp, flags>>

Next ==
    \/ \E e \in EndpointNames \cup {UnknownEndpoint} : Add(e)
    \/ \E e \in EndpointNames \cup {UnknownEndpoint} : AddPathBound(e)
    \/ \E p \in SearchInputs : RequestSearch(<<Params(p)>>)
    \/ \E i \in Ids : RequestRead(<<Str(i)>>)
    \/ \E d \in Payloads : RequestCreate(<<d>>)
    \/ \E i \in Ids, d \in Payloads : RequestUpdate(<<Str(i), d>>)
    \/ \E i \in Ids : RequestRemove(<<Str(i)>>)
    \/ \E t \in HeaderTimeouts, r \in HeaderRetries : HttpGet(t, r)
    \/ \E a \in SuccessAnswers : Respond(a.status, a.body)
    \/ \E a \in ErrorAnswers : RespondError(a.status, a.body, a.retryAfter)
    \/ \E b \in NetworkBodies : NetworkError(b)
    \/ InterceptorTimeout
    \/ ApiTimeout
    \/ InterceptorRetry
    \/ ApiRetry
    \/ LateAnswer
    \/ Tick

Spec == Init /\ [][Next]_vars

----------------------------------------------------------------------------
(* Claims *)

\* the wait that ended when the latest attempt started
LastGap == gaps.last

\* C1: once an attempt of a call is answered with a client-error status
\* (4xx other than 429), the call makes no further transport attempt,
\* whatever the operation and the configured retry counts.
C1_ClientErrorEndsCall ==
    [][flags.clientError => attempts' = attempts]_vars

\* C2: a create (POST) or update (PATCH) call issues at most one transport
\* attempt, whatever the failure of that attempt and the retry counts.
C2_MutationSentOnce ==
    call.op \in {"create", "update"} => attempts <= 1

\* the retry count the claim C3 calls effective: the per-call override, else
\* the endpoint's retries, else the config's defaultRetries, else the global
\* default
ClaimedRetries ==
    IF call.op = "http"
    THEN Coalesce(call.xRetries, DEFAULT_RETRIES)
    ELSE OrElse(config.endpoints[call.endpoint].retries,
                OrElse(config.defaultRetries, DEFAULT_RETRIES))

\* C3: the transport attempts of a call never exceed the effective retry
\* count plus one, over the whole path from the ApiRequest to the transport.
C3_AttemptsCapped ==
    attempts > 0 => attempts <= ClaimedRetries + 1

\* an attempt was answered 429 with Retry-After while the interceptor had
\* retries left, and no later attempt has ended yet
RateLimited ==
    /\ lastResp.kind = "error"
    /\ lastResp.status = 429
    /\ lastResp.retryAfter # UNDEFINED
    /\ lastResp.retriesLeft

\* C4: after a 429 with Retry-After: n and retries left the call is not
\* failed; the next attempt starts after a wait of min(n * 1000, 10000) ms.
C4_RetryAfterHonoured ==
    RateLimited =>
        /\ outcome.kind # "failure"
        /\ pc \in {"icWait", "apiWait"} =>
              wait + gaps.since = Min(lastResp.retryAfter * 1000, MAX_RETRY_DELAY)
        /\ pc = "inflight" =>
              LastGap = Min(lastResp.retryAfter * 1000, MAX_RETRY_DELAY)

\* C5: in a call in which a 401 was received, the stored credential is
\* cleared exactly once.
C5_ClearedOnce ==
    flags.unauthorized => clears = 1

\* C6: the failure that search, read, create, update or remove delivers to
\* its caller after an error answer is an ApiError carrying the status of
\* that answer.
C6_FailureIsApiError ==
    (outcome.kind = "failure" /\ call.op # "http" /\ lastResp.kind = "error") =>
        /\ outcome.error.type = "ApiError"
        /\ outcome.error.status = lastResp.status

\* C7: binding a client to, or invoking an operation on, an endpoint name
\* that is not configured fails synchronously with the configuration error
\* (endpoint not found in the API configuration) and issues no transport
\* attempt.
C7_UnknownEndpointIsConfigError ==
    (call.endpoint # "" /\ ~HasEndpoint(config, call.endpoint)) =>
        /\ outcome.kind = "thrown"
        /\ outcome.error = EndpointNotFound(call.endpoint)
        /\ attempts = 0

\* C8: while every attempt of a call is answered 503, the waits between
\* successive attempts are non-decreasing and at most 10000 ms.
C8_BackoffMonotone ==
    (flags.only503 /\ gaps.last # UNDEFINED) =>
        /\ gaps.last <= MAX_RETRY_DELAY
        /\ gaps.prev # UNDEFINED => gaps.prev <= gaps.last

\* C9: the wait after failed attempt k (0-based) is min(1000 * 2^k, 10000):
\* attempt number attempts (1-based) started after the wait that followed
\* attempt k = attempts - 2.
C9_BackoffFromBase ==
    (flags.only503 /\ gaps.last # UNDEFINED) =>
        gaps.last = Min(1000 * Pow2(attempts - 2), 10000)

\* the latest answer is a 2xx whose body is bare: data and total, no metadata
BareSearchAnswer ==
    /\ lastResp.kind = "response"
    /\ ~lastResp.body.isNull
    /\ ~lastResp.body.metadata.defined
    /\ lastResp.body.data.t = "array"
    /\ lastResp.body.total # UNDEFINED

\* C10: a search with page p and limit l answered with a bare body
\* {data: D, total: t} gives the caller data = D and
\* pagination = {total: t, page: p, limit: l, pages: ceil(t / l)}.
C10_BareSearchPaginated ==
    (call.op = "search" /\ call.parameters.page # UNDEFINED
        /\ call.parameters.limit # UNDEFINED /\ BareSearchAnswer) =>
        /\ outcome.kind = "success"
        /\ outcome.value.data = lastResp.body.data
        /\ outcome.value.pagination =
              [defined |-> TRUE,
               total |-> lastResp.body.total,
               page |-> call.parameters.page,
               limit |-> call.parameters.limit,
               pages |-> CeilDiv(lastResp.body.total, call.parameters.limit)]

----------------------------------------------------------------------------
(* Specifications of single steps.  Each starts from the inputs of one    *)
(* function of the client and applies it once; the variables the step     *)
(* does not touch stay at rest.                                            *)

\* the ApiConfig of the application: no timeouts, retries or defaults set
DefaultConfig ==
    [baseUrl |-> BaseUrl,
     endpoints |-> [e \in EndpointNames |->
                       [path |-> "items", timeout |-> UNDEFINED, retries |-> UNDEFINED]],
     defaultTimeout |-> UNDEFINED,
     defaultRetries |-> UNDEFINED]

\* the variables a single step leaves alone
AtRest ==
    /\ config = DefaultConfig
    /\ authToken = ""
    /\ client = ""
    /\ api = IdleApi
    /\ ic = IdleIc
    /\ wait = 0
    /\ attempts = 0
    /\ clears = 0
    /\ flags = NoFlags
    /\ gaps = NoGaps
    /\ net = NoNet

\* largest total and largest limit of a search answer
MaxTotal == 23
MaxLimit == 10

\* response.total of a search answer: absent, or a count
Totals == {UNDEFINED} \cup (0 .. MaxTotal)

\* a search answer the upstream has enveloped: it passes the interceptor
\* unchanged and its total reaches the map of Api.search
EnvelopedSearchBody(total) ==
    [SearchBody(<<1, 2>>, total) EXCEPT !.metadata = UpstreamMetadata(200)]

\* a search with a limit has received an answer with a total
PagesInit ==
    /\ AtRest
    /\ pc = "idle"
    /\ outcome = NoOutcome
    /\ \E t \in Totals, l \in 1 .. MaxLimit :
          /\ call = [NoCall EXCEPT !.op = "search", !.parameters = Parameters(1, l)]
          /\ lastResp = [NoResp EXCEPT !.kind = "response", !.status = 200,
                                       !.body = EnvelopedSearchBody(t)]

\* the map of Api.search: new ApiSearchResponse({...}) of the answer
SearchMap ==
    /\ pc = "idle"
    /\ pc' = "done"
    /\ outcome' = Success(MapSearch(lastResp.body, call.parameters))
    /\ UNCHANGED <<config, net, authToken, client, call, api, ic, wait, attempts,
                   clears, lastResp, flags, gaps>>

PagesSpec == PagesInit /\ [][SearchMap]_vars

\* C11: the pages of a search envelope are ceil(total / limit) when
\* total > 0, that is the least count of pages of limit items that hold
\* total items, and 0 when total is 0 or absent.
C11_PagesIsCeiling ==
    pc = "done" =>
        LET pages == outcome.value.pagination.pages
            total == lastResp.body.total
            limit == call.parameters.limit
        IN IF total # UNDEFINED /\ total > 0
           THEN pages * limit >= total /\ (pages - 1) * limit < total
           ELSE pages = 0

\* total 23 with limit 10 has given 3 pages
C11_Witness ==
    /\ pc = "done"
    /\ lastResp.body.total = 23
    /\ call.parameters.limit = 10
    /\ outcome.value.pagination.pages = 3

\* bodies of a 2xx answer, bare and enveloped, and the null body
NormalizeInputs ==
    {NullBody}
    \cup {[EmptyBody EXCEPT !.data = d, !.total = t, !.metadata = m,
                            !.statusCode = c, !.message = g] :
            d \in {Undefined, Array(<<>>), Array(<<1, 2>>), Object(7)},
            t \in {UNDEFINED, 5},
            m \in {NoMetadata, UpstreamMetadata(200), UpstreamMetadata(201)},
            c \in {UNDEFINED, 201},
            g \in {"", "created"}}

\* an HttpResponse with one of these bodies reaches the interceptor's map
NormalizeInit ==
    /\ AtRest
    /\ pc = "idle"
    /\ outcome = NoOutcome
    /\ call = [NoCall EXCEPT !.op = "http", !.method = "GET"]
    /\ \E b \in NormalizeInputs :
          lastResp = [NoResp EXCEPT !.kind = "response", !.status = 200, !.body = b]

\* ApiInterceptor.handleResponse on the event: the event's body is replaced
\* by the envelope, which is also what the subscriber is given; a null body
\* makes new ApiResponse(null) throw
HandleResponseOnce ==
    /\ pc = "idle"
    /\ IF handleResponseThrows(lastResp.body)
       THEN /\ pc' = "done"
            /\ outcome' = Thrown(TypeError)
            /\ lastResp' = lastResp
       ELSE /\ pc' = "once"
            /\ outcome' = Success(handleResponse(lastResp.body))
            /\ lastResp' = [lastResp EXCEPT !.body = handleResponse(@)]
    /\ UNCHANGED <<config, net, authToken, client, call, api, ic, wait, attempts,
                   clears, flags, gaps>>

\* ApiInterceptor.handleResponse on the event it has already handled
HandleResponseAgain ==
    /\ pc = "once"
    /\ pc' = "twice"
    /\ lastResp' = [lastResp EXCEPT !.body = handleResponse(@)]
    /\ UNCHANGED <<config, net, authToken, client, call, api, ic, wait, outcome,
                   attempts, clears, flags, gaps>>

NormalizeNext == HandleResponseOnce \/ HandleResponseAgain

NormalizeSpec == NormalizeInit /\ [][NormalizeNext]_vars

\* C12: handleResponse passes a body that carries metadata through
\* unchanged, and handling a body twice gives the envelope that handling it
\* once gives.
C12_NormalizeIdempotent ==
    /\ [][(~lastResp.body.isNull /\ lastResp.body.metadata.defined)
            => lastResp'.body = lastResp.body]_vars
    /\ [](pc = "twice" => lastResp.body = outcome.value)

\* a bare body with a data array has been handled twice
C12_Witness ==
    /\ pc = "twice"
    /\ outcome.value.class = "ApiResponse"
    /\ outcome.value.data = Array(<<1, 2>>)
    /\ lastResp.body = outcome.value

\* a bare resource body as the value an envelope would carry in data
AsData(body) == Object(body.id)

\* the call was answered 2xx with a bare resource (no data, no metadata)
BareResourceAnswer ==
    /\ pc = "done"
    /\ call.op \in {"read", "create", "update", "http"}
    /\ lastResp.kind = "response"
    /\ ~lastResp.body.isNull
    /\ ~lastResp.body.metadata.defined
    /\ lastResp.body.data.t = "undefined"

\* C13: a 2xx answer whose body B is a bare payload gives the caller an
\* envelope with data = B and metadata.statusCode = the status of the
\* answer.
C13_BarePayloadEnveloped ==
    BareResourceAnswer =>
        /\ outcome.kind = "success"
        /\ outcome.value.data = AsData(lastResp.body)
        /\ outcome.value.metadata.statusCode = lastResp.status

\* largest page a search asks for
MaxPage == 2

\* what a caller passes to search: nothing, or an ApiSearchParameters with
\* each field absent or set
BuilderInputs ==
    {NoParameters}
    \cup {[present |-> TRUE, page |-> p, limit |-> l, search |-> s, groupby |-> g,
           filter |-> f, sort |-> o] :
            p \in {UNDEFINED} \cup (0 .. MaxPage),
            l \in {UNDEFINED} \cup (0 .. MaxLimit),
            s \in {"", "john"},
            g \in {"", "kind"},
            f \in {[defined |-> FALSE, entries |-> <<>>],
                   [defined |-> TRUE, entries |-> <<>>],
                   [defined |-> TRUE, entries |-> <<[key |-> "a", value |-> 1]>>],
                   [defined |-> TRUE, entries |-> <<[key |-> "b", value |-> 12],
                                                    [key |-> "a", value |-> 1]>>]},
            o \in {[defined |-> FALSE, items |-> <<>>],
                   [defined |-> TRUE, items |-> <<>>],
                   [defined |-> TRUE, items |-> <<[field |-> "x", direction |-> "asc"]>>],
                   [defined |-> TRUE, items |-> <<[field |-> "y", direction |-> "desc"],
                                                  [field |-> "x", direction |-> "asc"]>>]}}

\* Api.search has been called with these parameters
BuildInit ==
    /\ AtRest
    /\ pc = "idle"
    /\ outcome = NoOutcome
    /\ lastResp = NoResp
    /\ \E p \in BuilderInputs :
          call = [NoCall EXCEPT !.op = "search", !.endpoint = "items",
                                !.method = "GET", !.parameters = p]

\* const params = this.buildHttpParams(parameters)
Build ==
    /\ pc = "idle"
    /\ pc' = "done"
    /\ call' = [call EXCEPT !.query = buildHttpParams(call.parameters)]
    /\ UNCHANGED <<config, net, authToken, client, api, ic, wait, outcome, attempts,
                   clears, lastResp, flags, gaps>>

BuildSpec == BuildInit /\ [][Build]_vars

\* HttpParams.get(key): the value of the entry of that key, <<>> when none
RECURSIVE QueryGet(_, _)
QueryGet(query, key) ==
    IF query = <<>> THEN <<>>
    ELSE IF Head(query).key = key THEN Head(query).value
         ELSE QueryGet(Tail(query), key)

QueryHas(query, key) == \E i \in 1 .. Len(query) : query[i].key = key

\* parseInt of a decimal numeral: the number it denotes
ParseInt(numeral) == CHOOSE n \in 0 .. 200 : NumToString(n) = numeral

\* the string a JSON string token denotes
ParseString(token) ==
    CHOOSE s \in {"a", "b", "x", "y", "asc", "desc", "field", "direction"} :
        "\"" \o s \o "\"" = token

\* JSON.parse of the members of an object of numbers: key : value , ...
RECURSIVE ParseEntries(_)
ParseEntries(tokens) ==
    IF Len(tokens) < 3 THEN <<>>
    ELSE <<[key |-> ParseString(tokens[1]), value |-> ParseInt(tokens[3])]>>
         \o ParseEntries(SubSeq(tokens, 5, Len(tokens)))

\* JSON.parse of a filter value: the tokens between { and }
ParseFilter(tokens) ==
    IF tokens = <<>> THEN <<>>
    ELSE ParseEntries(SubSeq(tokens, 2, Len(tokens) - 1))

\* the member of that name in the tokens of one JSON object of strings
RECURSIVE Member(_, _)
Member(tokens, name) ==
    IF Len(tokens) < 3 THEN ""
    ELSE IF ParseString(tokens[1]) = name THEN ParseString(tokens[3])
         ELSE Member(SubSeq(tokens, 5, Len(tokens)), name)

\* JSON.parse of the elements of an array of SortParams; an element is
\* { "field" : f , "direction" : d } (9 tokens), elements are separated by ,
RECURSIVE ParseItems(_)
ParseItems(tokens) ==
    IF Len(tokens) < 9 THEN <<>>
    ELSE <<[field |-> Member(SubSeq(tokens, 2, 8), "field"),
            direction |-> Member(SubSeq(tokens, 2, 8), "direction")]>>
         \o ParseItems(SubSeq(tokens, 11, Len(tokens)))

\* JSON.parse of a sort value: the tokens between [ and ]
ParseSort(tokens) ==
    IF tokens = <<>> THEN <<>>
    ELSE ParseItems(SubSeq(tokens, 2, Len(tokens) - 1))

\* C14: for parameters with a filter, a sort, a page and a limit, the query
\* that buildHttpParams builds reads back (filter and sort by JSON.parse,
\* page and limit by parseInt) as the same filter, sort order, page and
\* limit.
C14_QueryRoundTrip ==
    (pc = "done" /\ call.parameters.present
        /\ call.parameters.filter.defined /\ call.parameters.sort.defined
        /\ call.parameters.page # UNDEFINED /\ call.parameters.limit # UNDEFINED) =>
        /\ ParseFilter(QueryGet(call.query, "filter")) = call.parameters.filter.entries
        /\ ParseSort(QueryGet(call.query, "sort")) = call.parameters.sort.items
        /\ Len(QueryGet(call.query, "page")) = 1
        /\ ParseInt(QueryGet(call.query, "page")[1]) = call.parameters.page
        /\ Len(QueryGet(call.query, "limit")) = 1
        /\ ParseInt(QueryGet(call.query, "limit")[1]) = call.parameters.limit

\* filter {a: 1}, sort [{field: 'x', direction: 'asc'}], page 2, limit 5
\* has been built and reads back
C14_Witness ==
    /\ pc = "done"
    /\ call.parameters.filter.entries = <<[key |-> "a", value |-> 1]>>
    /\ call.parameters.sort.items = <<[field |-> "x", direction |-> "asc"]>>
    /\ call.parameters.page = 2
    /\ call.parameters.limit = 5
    /\ ParseFilter(QueryGet(call.query, "filter")) = <<[key |-> "a", value |-> 1]>>
    /\ ParseSort(QueryGet(call.query, "sort")) = <<[field |-> "x", direction |-> "asc"]>>
    /\ QueryGet(call.query, "page") = <<"2">>
    /\ QueryGet(call.query, "limit") = <<"5">>

\* C15: for every input of buildHttpParams, an absent parameters object
\* included, the query ends with page (default 1) and limit (default 100),
\* and holds a search, filter, sort or groupby entry only when that field
\* was supplied (sort only when it is non-empty).
C15_QueryAlwaysPaged ==
    pc = "done" =>
        LET q == call.query
            p == call.parameters
            n == Len(q)
        IN /\ n >= 2
           /\ q[n - 1] = [key |-> "page", value |-> <<NumToString(Coalesce(p.page, 1))>>]
           /\ q[n] = [key |-> "limit", value |-> <<NumToString(Coalesce(p.limit, 100))>>]
           /\ QueryHas(q, "search") => p.search # ""
           /\ QueryHas(q, "filter") => p.filter.defined
           /\ QueryHas(q, "sort") => p.sort.defined /\ p.sort.items # <<>>
           /\ QueryHas(q, "groupby") => p.groupby # ""

\* a direct HttpClient call has ended in a failure of the network: the
\* transport gave a status-0 HttpErrorResponse and the call is over
NetworkFailure ==
    /\ call.op = "http"
    /\ pc = "done"
    /\ lastResp.kind = "error"
    /\ lastResp.status = 0

\* C16: a failure of the network (no HTTP status) is normalised to an
\* ApiError with status 0 and code NETWORK_ERROR or CLIENT_ERROR.
C16_NetworkErrorStatusZero ==
    NetworkFailure =>
        /\ outcome.kind = "failure"
        /\ outcome.error.type = "ApiError"
        /\ outcome.error.status = 0
        /\ outcome.error.code \in {"NETWORK_ERROR", "CLIENT_ERROR"}

\* C17: the error a failure of the network ends the call with carries the
\* connectivity message, and its details are those of the original error.
C17_NetworkErrorMessage ==
    NetworkFailure =>
        /\ outcome.kind = "failure"
        /\ outcome.error.message = "Network error occurred. Please check your connection."
        /\ \E b \in NetworkBodies : outcome.error.details = b

\* the call is over and its last transport attempt failed: with an error
\* status, in the network, or by a timeout
TerminalFailure ==
    /\ pc = "done"
    /\ lastResp.kind \in {"error", "timeout"}

\* C18: a call whose last attempt failed ends with a failure delivered to
\* the caller, the statuses with a side effect (401, 403) and the network
\* failure (0) included, and after a 401 the side effect has run; the call
\* never ends with a value or with nothing.
C18_ErrorNeverSwallowed ==
    TerminalFailure =>
        /\ outcome.kind = "failure"
        /\ (lastResp.kind = "error" /\ lastResp.status = 401) =>
              clears >= 1 /\ authToken = ""

\* a call answered 401 has ended: the credential was cleared and the caller
\* received the failure
C18_Witness ==
    /\ TerminalFailure
    /\ lastResp.status = 401
    /\ clears = 1
    /\ outcome.kind = "failure"


\* the retry count and the timeout the claim C19 resolves for the endpoint
\* of the call: the endpoint's own value when defined, else the config's
\* default, else the global default
ResolvedRetries ==
    Coalesce(config.endpoints[call.endpoint].retries,
             Coalesce(config.defaultRetries, ApiFallbackRetries))

ResolvedTimeout ==
    Coalesce(config.endpoints[call.endpoint].timeout,
             Coalesce(config.defaultTimeout, ApiFallbackTimeout))

\* a search or read call passed the endpoint lookup and set up its pipe
ResolvedCall ==
    /\ call.op \in {"search", "read"}
    /\ api.layer

\* C19: the retry count a search or read call retries with is the endpoint's
\* retries whenever defined, 0 included, else defaultRetries, else the
\* global default; its timeout is resolved by the same rule.
C19_ResolvedByDefinedness ==
    ResolvedCall =>
        /\ api.count = ResolvedRetries
        /\ api.timeoutValue = ResolvedTimeout


\* the interceptor holds a request of the call in flight
InPipeline == pc = "inflight" /\ attempts > 0

\* C20: the pipeline runs a request with the X-Retries and X-Timeout values
\* when the request carries them, and with the resolved retry count and
\* timeout of the call's endpoint when it carries none.
C20_OverrideElseResolved ==
    InPipeline =>
        /\ call.xRetries # UNDEFINED => ic.retries = call.xRetries
        /\ call.xTimeout # UNDEFINED => ic.timeoutValue = call.xTimeout
        /\ (call.op # "http" /\ call.xRetries = UNDEFINED) =>
              ic.retries = ResolvedRetries
        /\ (call.op # "http" /\ call.xTimeout = UNDEFINED) =>
              ic.timeoutValue = ResolvedTimeout

----------------------------------------------------------------------------
(* The call shapes of an ApiRequest *)

\* a configuration of two endpoints whose paths differ from their names
ShapeConfig ==
    [baseUrl |-> BaseUrl,
     endpoints |->
         [e \in {"items", "users"} |->
             [path |-> "v1/" \o e, timeout |-> UNDEFINED, retries |-> UNDEFINED]],
     defaultTimeout |-> UNDEFINED,
     defaultRetries |-> UNDEFINED]

\* the argument lists of the two declared signatures of each operation:
\* without and with a leading endpoint argument (the bound endpoint's name,
\* another endpoint's, a string that is also an id); ids are "7" and
\* "users", data a resource and the empty object
WithLeading(shapes) ==
    shapes \cup {<<Str(e)>> \o a : e \in {"items", "users", "7"}, a \in shapes}
SearchShapes == WithLeading({<<>>} \cup {<<Params(p)>> : p \in SearchInputs \ {NoParameters}})
ReadShapes == WithLeading({<<Str(i)>> : i \in {"7", "users"}})
CreateShapes == WithLeading({<<d>> : d \in {Object(7), Object(UNDEFINED)}})
UpdateShapes ==
    WithLeading({<<Str(i), d>> : i \in {"7", "users"},
                                 d \in {Object(7), Object(UNDEFINED)}})

ShapeInit ==
    /\ config = ShapeConfig
    /\ authToken \in Tokens
    /\ client = ""
    /\ call = NoCall
    /\ pc = "idle"
    /\ api = IdleApi
    /\ ic = IdleIc
    /\ wait = 0
    /\ outcome = NoOutcome
    /\ attempts = 0
    /\ clears = 0
    /\ lastResp = NoResp
    /\ flags = NoFlags
    /\ gaps = NoGaps
    /\ net = NoNet

ShapeNext ==
    \/ \E e \in DOMAIN ShapeConfig.endpoints : Add(e)
    \/ \E e \in DOMAIN ShapeConfig.endpoints : AddPathBound(e)
    \/ \E a \in SearchShapes : RequestSearch(a)
    \/ \E a \in ReadShapes : RequestRead(a)
    \/ \E a \in CreateShapes : RequestCreate(a)
    \/ \E a \in UpdateShapes : RequestUpdate(a)
    \/ \E a \in ReadShapes : RequestRemove(a)

ShapeSpec == ShapeInit /\ [][ShapeNext]_vars

\* what the caller meant by the arguments, read off the declared signatures:
\* the data is the last argument, the id the last string before the data,
\* the search parameters the argument that is not a string
CallerData == Arg(call.args, Len(call.args))
CallerId ==
    IF call.op \in {"read", "remove"} THEN call.args[Len(call.args)].s
    ELSE IF call.op = "update" THEN call.args[Len(call.args) - 1].s
    ELSE ""
CallerParameters ==
    IF call.args # <<>> /\ ~IsString(call.args[Len(call.args)])
    THEN call.args[Len(call.args)].p
    ELSE NoParameters

\* an operation of the ApiRequest bound to client was called
Delegated == call.op \in {"search", "read", "create", "update", "remove"}

\* C21: an operation of an ApiRequest bound to an endpoint targets that
\* endpoint's configured path in both call shapes, whatever the leading
\* endpoint argument, and the id, the data and the search parameters of the
\* request are the caller's.
C21_ShapesTargetBoundEndpoint ==
    Delegated =>
        /\ call.endpoint = client
        /\ call.url = GetUrl(config, config.endpoints[client].path, CallerId)
        /\ call.id = CallerId
        /\ call.op \in {"create", "update"} => call.data = CallerData
        /\ call.op = "search" => call.parameters = CallerParameters

\* update('users', '7', data) on the client bound to items went to
\* v1/items/7 with the data
C21_Witness ==
    /\ client = "items"
    /\ call.op = "update"
    /\ call.args = <<Str("users"), Str("7"), Object(7)>>
    /\ call.url = BaseUrl \o "/v1/items/7"
    /\ call.data = Object(7)
    /\ pc = "inflight"

----------------------------------------------------------------------------
(* Claims about the attempts of a call and the transport *)

\* a step that starts a transport attempt
AttemptStarts == attempts' # attempts

\* C22: the attempts of a call are sequential: the pipe listens to at most
\* one transport request, and only while an attempt is in flight; an attempt
\* starts only when no request is listened to, and a further attempt only
\* when the retry delay being waited has elapsed.
C22_AttemptsSequential ==
    /\ [](net.live <= 1 /\ (net.live = 1 <=> pc = "inflight"))
    /\ [][AttemptStarts =>
            /\ attempts' = attempts + 1
            /\ net.live = 0
            /\ \/ pc \in {"idle", "bound"} /\ attempts = 0
               \/ pc \in {"icWait", "apiWait"} /\ wait = 0 /\ lastResp.kind # "none"]_vars

\* a third attempt is in flight after two failed ones and two waits
C22_Witness ==
    /\ pc = "inflight"
    /\ attempts = 3
    /\ net.live = 1
    /\ gaps.prev # UNDEFINED
    /\ gaps.last # UNDEFINED

\* a step in which the upstream answers a request a timeout aborted
LateAnswerArrives == net'.stale < net.stale

TimesOut == pc = "inflight" /\ pc' # "inflight" /\ lastResp'.kind = "timeout"

\* where the call would stand had the attempt in flight been answered 503
After503 ==
    InterceptorOnError(Answered(Touched), call,
                       HttpErrorResponse(503, PlainBody, UNDEFINED, call.url))

\* C24: an attempt that exceeds its timeout gets the retry decision of an
\* attempt answered 5xx: from the same state, the call waits the same delay
\* for a new attempt while retries remain, and ends when none remain.
C24_TimeoutRetriedLike5xx ==
    [][TimesOut => pc' = After503.pc /\ wait' = After503.wait]_vars

----------------------------------------------------------------------------
(* Requests whose transport fails with an error of no known class *)

\* next.handle(apiRequest) errors with something that is neither an
\* HttpErrorResponse nor a TimeoutError (an Error thrown further down the
\* handler chain)
TransportThrows ==
    /\ pc = "inflight"
    /\ Apply(InterceptorOnError(Answered(Touched), call,
                                PlainError("Converting circular structure to JSON")))
    /\ Ended("thrown", UNDEFINED, UNDEFINED, EmptyBody)
    /\ UNCHANGED <<config, client, call>>

RawInit ==
    /\ AtRest
    /\ call = NoCall
    /\ pc = "idle"
    /\ outcome = NoOutcome
    /\ lastResp = NoResp

RawNext ==
    \/ \E t \in HeaderTimeouts, r \in HeaderRetries : HttpGet(t, r)
    \/ \E a \in SuccessAnswers : Respond(a.status, a.body)
    \/ \E a \in ErrorAnswers : RespondError(a.status, a.body, a.retryAfter)
    \/ \E b \in NetworkBodies : NetworkError(b)
    \/ TransportThrows
    \/ InterceptorTimeout
    \/ InterceptorRetry
    \/ LateAnswer
    \/ Tick

RawSpec == RawInit /\ [][RawNext]_vars

\* C25: once an attempt failed with an error that is neither an HTTP error
\* response nor a timeout, the call is over (no wait, no further attempt)
\* and the caller holds an ApiError with status 500 and code
\* 'UNEXPECTED_ERROR'.
C25_UnclassifiedIsTerminal ==
    lastResp.kind = "thrown" =>
        /\ pc = "done"
        /\ outcome.kind = "failure"
        /\ outcome.error.type = "ApiError"
        /\ outcome.error.status = 500
        /\ outcome.error.code = "UNEXPECTED_ERROR"


\* C26: when the answer of a direct HttpClient call's final attempt carries
\* the HTTP status s, the caller receives an ApiError with status s, the
\* code of the error body when it has one and 'HTTP_<s>' otherwise, the
\* request URL as path and the error body as details.
C26_StatusErrorNormalized ==
    [][\A a \in ErrorAnswers :
          (RespondError(a.status, a.body, a.retryAfter) /\ pc' = "done") =>
              /\ outcome'.kind = "failure"
              /\ outcome'.error.type = "ApiError"
              /\ outcome'.error.status = a.status
              /\ outcome'.error.code =
                    IF a.body.code # "" THEN a.body.code
                    ELSE "HTTP_" \o NumToString(a.status)
              /\ outcome'.error.path = call.url
              /\ outcome'.error.details = a.body]_vars

\* a 404 whose body carries a code, and a 503 without one after the retries
C26_Witness ==
    /\ pc = "done"
    /\ lastResp.kind = "error"
    /\ \/ /\ lastResp.status = 404
          /\ outcome.error.code = "E_CODE"
          /\ outcome.error.details = CodedBody
       \/ /\ lastResp.status = 503
          /\ outcome.error.code = "HTTP_503"
          /\ attempts > 1
    /\ outcome.error.path = call.url


\* a step in which an attempt is answered 401
Answered401 == lastResp'.kind = "error" /\ lastResp'.status = 401 /\ pc = "inflight"

\* C27: the stored credential changes only by being cleared in the step in
\* which an attempt is answered 401; no other step (a success, a 403 or any
\* other 4xx, a 5xx, a network failure, a timeout, a wait) touches the
\* store, and no step stores a credential.
C27_CredentialOnlyClearedOn401 ==
    [][/\ authToken' # authToken => authToken' = "" /\ Answered401
       /\ clears' # clears => clears' = clears + 1 /\ Answered401]_vars

\* a call answered 403 has ended and the credential is still stored
C27_Witness ==
    /\ pc = "done"
    /\ lastResp.kind = "error"
    /\ lastResp.status = 403
    /\ authToken = "tok"
    /\ clears = 0


\* the headers the claim C28 requires of a request dispatched now
ClaimedHeaders ==
    [contentType |-> "application/json",
     accept |-> "application/json",
     authorization |-> IF authToken # "" THEN "Bearer " \o authToken ELSE ""]

\* C28: the request of every transport attempt carries Content-Type and
\* Accept application/json, and an Authorization header with the stored
\* token exactly when the store holds a token.
C28_HeadersOnEveryAttempt ==
    pc = "inflight" => ic.headers = ClaimedHeaders

\* the second attempt of a call is in flight with the stored token
C28_Witness ==
    /\ pc = "inflight"
    /\ attempts = 2
    /\ authToken = "tok"
    /\ ic.headers.authorization = "Bearer tok"
    /\ ic.headers.contentType = "application/json"

----------------------------------------------------------------------------
(* Several calls in flight at once.  The calls are direct HttpClient GETs *)
(* with an X-Retries header; pc, call, ic, outcome, attempts and lastResp *)
(* hold one value per call, the credential store and the transport are    *)
(* shared.  The retry delays of different calls run independently, so a   *)
(* pending retry may resubscribe at any point of the other calls' steps.  *)

\* how many calls are made
NumCalls == 2
Calls == 1 .. NumCalls

\* the request of call i, with its X-Retries header
CallOf(i, retries) ==
    [NoCall EXCEPT !.op = "http", !.method = "GET",
                   !.url = BaseUrl \o "/data/" \o NumToString(i),
                   !.xRetries = retries]

\* the part of the state one call's callbacks touch
TouchedBy(i) ==
    [pc |-> pc[i], api |-> IdleApi, ic |-> ic[i], wait |-> 0,
     outcome |-> outcome[i], authToken |-> authToken, clears |-> clears,
     attempts |-> attempts[i], net |-> net]

ApplyTo(i, s) ==
    /\ pc' = [pc EXCEPT ![i] = s.pc]
    /\ ic' = [ic EXCEPT ![i] = s.ic]
    /\ outcome' = [outcome EXCEPT ![i] = s.outcome]
    /\ attempts' = [attempts EXCEPT ![i] = s.attempts]
    /\ authToken' = s.authToken
    /\ clears' = s.clears
    /\ net' = s.net
    /\ UNCHANGED <<config, client, api, wait, flags, gaps>>

ManyInit ==
    /\ config = DefaultConfig
    /\ authToken \in Tokens
    /\ client = ""
    /\ call = [i \in Calls |-> NoCall]
    /\ pc = [i \in Calls |-> "idle"]
    /\ api = IdleApi
    /\ ic = [i \in Calls |-> IdleIc]
    /\ wait = 0
    /\ outcome = [i \in Calls |-> NoOutcome]
    /\ attempts = [i \in Calls |-> 0]
    /\ clears = 0
    /\ lastResp = [i \in Calls |-> NoResp]
    /\ flags = NoFlags
    /\ gaps = NoGaps
    /\ net = NoNet

\* call i is made: its request passes intercept and is sent
Dispatch(i, retries) ==
    /\ pc[i] = "idle"
    /\ call' = [call EXCEPT ![i] = CallOf(i, retries)]
    /\ ApplyTo(i, Intercept(TouchedBy(i), CallOf(i, retries)))
    /\ UNCHANGED lastResp

\* the retry delay of call i has elapsed: the interceptor's retry
\* resubscribes to next.handle(apiRequest), the request cloned in intercept
RetryOf(i) ==
    /\ pc[i] = "icWait"
    /\ ApplyTo(i, Resend(TouchedBy(i)))
    /\ UNCHANGED <<call, lastResp>>

\* the request of call i is answered with an error status
AnswerError(i, status, body, retryAfter) ==
    /\ pc[i] = "inflight"
    /\ ApplyTo(i, InterceptorOnError(Answered(TouchedBy(i)), call[i],
                     HttpErrorResponse(status, body, retryAfter, call[i].url)))
    /\ lastResp' = [lastResp EXCEPT ![i] =
                       [NoResp EXCEPT !.kind = "error", !.status = status]]
    /\ UNCHANGED call

\* the request of call i is answered 2xx
AnswerSuccess(i, status, body) ==
    /\ pc[i] = "inflight"
    /\ ApplyTo(i, InterceptorOnResponse(Answered(TouchedBy(i)), call[i], body))
    /\ lastResp' = [lastResp EXCEPT ![i] =
                       [NoResp EXCEPT !.kind = "response", !.status = status]]
    /\ UNCHANGED call

ManyNext ==
    \/ \E i \in Calls, r \in {0, MaxRetries} : Dispatch(i, r)
    \/ \E i \in Calls : RetryOf(i)
    \/ \E i \in Calls, a \in ErrorAnswers :
          AnswerError(i, a.status, a.body, a.retryAfter)
    \/ \E i \in Calls, a \in SuccessAnswers : AnswerSuccess(i, a.status, a.body)

ManySpec == ManyInit /\ [][ManyNext]_vars

\* call i has ended and its request was answered 401
Ended401(i) ==
    pc[i] = "done" /\ lastResp[i].kind = "error" /\ lastResp[i].status = 401

\* C29: whenever calls in flight at once are each answered 401, in any
\* order, the credential is absent after the first of them; the later
\* clears find it absent, change nothing and raise nothing; and each call
\* delivers to its own caller the failure of its own request.
C29_Concurrent401s ==
    /\ [](\A i \in Calls : Ended401(i) =>
             /\ authToken = ""
             /\ clears >= 1
             /\ outcome[i].kind = "failure"
             /\ outcome[i].error.status = 401
             /\ outcome[i].error.path = call[i].url)
    /\ [][\A i \in Calls :
             (Ended401(i)' /\ ~Ended401(i)) =>
                 /\ authToken' = ""
                 /\ \A j \in Calls \ {i} :
                       pc'[j] = pc[j] /\ outcome'[j] = outcome[j]]_vars

\* two calls were both sent with the token, so both were in flight when the
\* first 401 arrived, and both have been answered 401
C29_Witness ==
    /\ \A i \in {1, 2} :
          Ended401(i) /\ ic[i].headers.authorization = "Bearer tok"
    /\ clears = 2
    /\ authToken = ""

----------------------------------------------------------------------------
(* Progress: time passes, and a timer that is due fires *)

\* the configurations without defaults, and a stored credential
FairInit ==
    /\ Init
    /\ config.defaultTimeout = UNDEFINED
    /\ config.defaultRetries = UNDEFINED
    /\ authToken = "tok"

FairSpec ==
    /\ FairInit
    /\ [][Next]_vars
    /\ WF_vars(Tick)
    /\ WF_vars(InterceptorTimeout)
    /\ WF_vars(ApiTimeout)
    /\ WF_vars(InterceptorRetry)
    /\ WF_vars(ApiRetry)

\* C30: a call that has an attempt in flight, or waits for a retry, ends,
\* whether or not the transport ever answers, after no more attempts than
\* its two retry counts allow; the call that has ended holds exactly one
\* outcome, a success or a failure, which no later step changes.
C30_CallTerminates ==
    /\ (pc \in {"inflight", "icWait", "apiWait"}) ~> (pc = "done")
    /\ [](attempts <= (api.count + 1) * (ic.retries + 1))
    /\ []((pc = "done" /\ attempts > 0) => outcome.kind \in {"success", "failure"})
    /\ [][pc = "done" => (pc' = "done" /\ outcome' = outcome /\ attempts' = attempts)]_vars

\* a call ended after every attempt the two retry layers allow had timed
\* out or failed
C30_Witness ==
    /\ pc = "done"
    /\ outcome.kind = "failure"
    /\ lastResp.kind = "timeout"
    /\ attempts = 3

----------------------------------------------------------------------------
(* Claims about successful answers, the credential in retries, and the    *)
(* timeout of each attempt                                                *)

\* C31: once the latest attempt of a call was answered 2xx, the call has
\* ended with a success, whatever the body of the answer (a null body
\* included).
C31_SuccessNeverFails ==
    lastResp.kind = "response" => pc = "done" /\ outcome.kind = "success"


\* C32: a search that ended successfully reports in its envelope's
\* pagination the page and the limit that the query of that call carried.
C32_PaginationEchoesQuery ==
    (call.op = "search" /\ pc = "done" /\ outcome.kind = "success") =>
        /\ QueryGet(call.query, "page")
               = <<NumToString(outcome.value.pagination.page)>>
        /\ QueryGet(call.query, "limit")
               = <<NumToString(outcome.value.pagination.limit)>>


\* C33: an attempt that starts while the store holds no credential carries
\* no Authorization header, the retry attempts of a call that was made
\* before another call's 401 cleared the credential included.
C33_NoClearedTokenAfterClear ==
    [][\A i \in Calls :
          (attempts'[i] # attempts[i] /\ authToken = "")
              => ic'[i].headers.authorization = ""]_vars


\* how long the attempt in flight has been in flight
AttemptElapsed == ic.timeoutValue - ic.timer

\* the step is a timeout erroring: of the attempt in flight, or of a call
\* that waits in the backoff delay of the interceptor's retry
TimeoutFires ==
    \/ pc = "inflight" /\ pc' # "inflight" /\ lastResp'.kind = "timeout"
    \/ pc = "icWait" /\ pc' \notin {"icWait", "inflight"}

\* C34: a timeout errors only while an attempt is in flight and only when
\* that attempt alone has been in flight for the timeout: the time of
\* earlier attempts and of backoff delays does not count.
C34_TimeoutPerAttempt ==
    [][TimeoutFires =>
          /\ pc = "inflight"
          /\ AttemptElapsed >= (IF api.layer
                                THEN Min(api.timeoutValue, ic.timeoutValue)
                                ELSE ic.timeoutValue)]_vars

====
